---- MODULE Spec2Model ----
(***************************************************************************)
(* A model of SimpleCrawler (src/quetzal/simple_crawler.py) and of the     *)
(* SimpleDocProcessor calls it makes (src/quetzal/simple_doc_processor.py).*)
(* One crawler session: the politeness gate (_respect_rate_limits,          *)
(* _get_robot_parser, _can_fetch), extract_links, parse_sitemap, the        *)
(* dispatcher crawl() and the traversal crawl_with_depth().                 *)
(*                                                                         *)
(* The web is the environment: the anchors of every page, the sitemap      *)
(* documents and the robots.txt of the hosts are fixed when the session    *)
(* starts; the outcome of every page GET is chosen when it is issued.      *)
(***************************************************************************)
EXTENDS Integers, Sequences, FiniteSets, TLC

(***************************************************************************)
(* Bounds of the model.                                                    *)
(***************************************************************************)
\* the largest budget a caller passes as max_pages / max_depth
MaxPagesArg == 2
MaxDepthArg == 1
\* the number of ticks one outbound request may take
MaxLatency == 1
\* the largest crawl_delay a session is built with
MaxDelay == 2
\* the reading of time.time() when the session is constructed: far from 0
Epoch == MaxDelay + 1
\* the default crawl_delay of SimpleCrawler.__init__
CrawlDelayDefault == 1
\* the number of nested parse_sitemap frames the interpreter allows
RecursionLimit == 3
\* anchors of a page handed to extract_links
MaxAnchors == 2
\* calls of _can_fetch on one session
MaxCalls == 3

(***************************************************************************)
(* Optional values: None is <<>>, a value v is <<v>>.                      *)
(***************************************************************************)
None == <<>>
Some(v) == <<v>>
\* Python truthiness of an optional int or an optional str
TruthyInt(o) == o # None /\ o[1] # 0
TruthyStr(o) == o # None /\ o[1] # ""

(***************************************************************************)
(* URLs and file paths. A host and a path are the sequences of their       *)
(* characters, so that str.endswith is computed on characters.             *)
(***************************************************************************)
HostE == <<"e", ".", "c">>
HostS == <<"s", ".", "e", ".", "c">>
HostX == <<"x", "e", ".", "c">>
HostV == <<"v", ".", "c">>

Url(h, p) == [scheme |-> "https", host |-> h, path |-> p]
\* an href with neither scheme nor authority: an absolute path
Rel(p) == [scheme |-> "", host |-> <<>>, path |-> p]
\* the empty string passed as base_url
NoBase == [scheme |-> "", host |-> <<>>, path |-> <<>>]

PathRoot == <<"/">>
PathB == <<"/", "b">>
PathC == <<"/", "c">>
PathD == <<"/", "d">>
PathN == <<"/", "n">>
PathRobots == <<"/", "r", ".", "t", "x", "t">>
PathSitemap == <<"/", "s", ".", "x", "m", "l">>
PathSm1 == <<"/", "1", ".", "x", "m", "l">>
PathSm2 == <<"/", "2", ".", "x", "m", "l">>
PathSm3 == <<"/", "3", ".", "x", "m", "l">>

A == Url(HostE, PathRoot)
B == Url(HostE, PathB)
C == Url(HostS, PathC)
D == Url(HostV, PathD)
N == Url(HostX, PathN)
Sb == Url(HostS, PathB)
RelB == Rel(PathB)
Mailto == [scheme |-> "mailto", host |-> <<>>, path |-> <<"x">>]

\* s.endswith(suf) on character sequences
EndsWith(s, suf) ==
    /\ Len(suf) <= Len(s)
    /\ SubSeq(s, Len(s) - Len(suf) + 1, Len(s)) = suf

\* urllib.parse.urljoin(base, href) for the href shapes of the model
urljoin(base, href) ==
    IF href.scheme # "" THEN href
    ELSE IF href.host # <<>> THEN [href EXCEPT !.scheme = base.scheme]
    ELSE [scheme |-> base.scheme, host |-> base.host, path |-> href.path]

netloc(u) == u.host

\* a scheme alone taken for a valid URL
HasScheme(u) == u.scheme # ""

\* lines 54-61: all([result.scheme, result.netloc])
_is_valid_url(u) == u.scheme # "" /\ u.host # <<>>

(***************************************************************************)
(* The state.                                                              *)
(***************************************************************************)
VARIABLES
    \* the session (SimpleCrawler.__init__)
    respect_robots_txt, crawl_delay, max_pages, max_depth,
    robot_parsers, last_request_time, visited_urls,
    \* the environment: the clock, the outbound requests issued so far, and
    \* whether _respect_rate_limits was called since the last request
    now, requests, armed,
    \* the web: anchors of each page, sitemap documents, robots.txt, and
    \* the ticks a request takes
    site, sitemaps, robots, latency,
    \* one crawl_with_depth call: its arguments, its locals, its position
    pc, start_url, arg_max_depth, arg_max_pages, url_patterns,
    eff_max_depth, eff_max_pages,
    sitemap_urls, queue, visited, results, page_count,
    \* the entries popped from the queue, the calls of crawl() and what
    \* each call returned, in order
    dequeued, dispatched, returned,
    \* the calls of the session's other methods: how many were made, and the
    \* latest of them with its arguments and what it returned
    calls, last_call

sessionVars == <<respect_robots_txt, crawl_delay, max_pages, max_depth, visited_urls>>
gateVars == <<robot_parsers, last_request_time, now, requests, armed>>
webVars == <<site, sitemaps, robots, latency>>
callVars == <<pc, start_url, arg_max_depth, arg_max_pages, url_patterns,
              eff_max_depth, eff_max_pages, sitemap_urls, queue, visited,
              results, page_count, dequeued, dispatched, returned>>
unitVars == <<calls, last_call>>
vars == <<sessionVars, gateVars, webVars, callVars, unitVars>>

EmptyMap == [k \in {} |-> ""]

(***************************************************************************)
(* The politeness gate. Its operations read and write robot_parsers,       *)
(* last_request_time and the clock, and issue requests: they are written   *)
(* as functions of a gate record g and return the gate they leave.         *)
(***************************************************************************)
Gate ==
    [rp |-> robot_parsers, last |-> last_request_time, now |-> now,
     log |-> requests, armed |-> armed]

\* an outbound request: issued at g.now, it takes lat ticks. kind is "HEAD"
\* (the sitemap probe), "SITEMAP" (a sitemap GET), "ROBOTS" (a robots.txt
\* GET) or "PAGE" (a page GET)
Request(g, kind, url, lat) ==
    [g EXCEPT !.log = Append(g.log, [kind |-> kind, url |-> url, at |-> g.now,
                                     throttled |-> g.armed]),
              !.now = g.now + lat,
              !.armed = FALSE]

\* the stamp without the sleep
StampOnly(g) == [g EXCEPT !.last = g.now, !.armed = TRUE]

\* _respect_rate_limits: sleep for what is left of crawl_delay, then stamp
_respect_rate_limits(g) ==
    LET elapsed == g.now - g.last
        woke == IF elapsed < crawl_delay THEN g.now + (crawl_delay - elapsed)
                ELSE g.now
    IN  [g EXCEPT !.now = woke, !.last = woke, !.armed = TRUE]

RobotsUrl(u) == [scheme |-> u.scheme, host |-> u.host, path |-> PathRobots]

\* RobotFileParser.read() against the answer w of the robots.txt GET: the
\* parser it leaves, or None when it raises. It catches HTTPError only:
\* 401 and 403 set disallow_all, another 4xx sets allow_all, a 5xx sets
\* nothing and leaves the parser unread; a network error, a timeout or a
\* body that is not UTF-8 raise
read(w) ==
    CASE w.net = "ok" -> Some([mode |-> "rules", disallow |-> w.disallow])
      [] w.net = "http403" -> Some([mode |-> "disallow_all", disallow |-> {}])
      [] w.net = "http404" -> Some([mode |-> "allow_all", disallow |-> {}])
      [] w.net = "http500" -> Some([mode |-> "unread", disallow |-> {}])
      [] OTHER -> None

\* the cache replaced by the new entry
CacheOnly(rp, key, parser) == [h \in {key} |-> parser]

\* the assignment of line 87
CacheParser(rp, key, parser) ==
    [h \in DOMAIN rp \cup {key} |-> IF h = key THEN parser ELSE rp[h]]

\* a lookup that never finds the host
NeverCached(rp, key) == FALSE

\* line 76: netloc in self.robot_parsers
Cached(rp, key) == key \in DOMAIN rp

\* _get_robot_parser: [g, parser], parser an optional RobotFileParser
_get_robot_parser(g, base_url, lat) ==
    IF ~respect_robots_txt THEN [g |-> g, parser |-> None]
    ELSE IF Cached(g.rp, netloc(base_url))
    THEN [g |-> g, parser |-> Some(g.rp[netloc(base_url)])]
    ELSE LET g1 == Request(_respect_rate_limits(g), "ROBOTS", RobotsUrl(base_url), lat)
             parser == read(robots)
         IN  IF parser # None
             THEN [g |-> [g1 EXCEPT !.rp = CacheParser(g1.rp, netloc(base_url), parser[1])],
                   parser |-> parser]
             ELSE [g |-> g1, parser |-> None]

\* RobotFileParser.can_fetch("*", url)
can_fetch(parser, url) ==
    CASE parser.mode = "disallow_all" -> FALSE
      [] parser.mode = "allow_all" -> TRUE
      [] parser.mode = "unread" -> FALSE
      [] OTHER -> url.path \notin parser.disallow

\* robots.txt consulted whatever respect_robots_txt says
CanFetchConsulting(g, url, lat) ==
    LET g1 == Request(_respect_rate_limits(g), "ROBOTS", RobotsUrl(url), lat)
        parser == read(robots)
    IN  [g |-> g1, ok |-> IF parser # None THEN can_fetch(parser[1], url) ELSE TRUE]

\* _can_fetch: [g, ok]
_can_fetch(g, url, lat) ==
    IF ~respect_robots_txt THEN [g |-> g, ok |-> TRUE]
    ELSE LET r == _get_robot_parser(g, url, lat)
         IN  IF r.parser # None
             THEN [g |-> r.g, ok |-> can_fetch(r.parser[1], url)]
             ELSE [g |-> r.g, ok |-> TRUE]

(***************************************************************************)
(* extract_links. The html is given by the sequence of its anchors' hrefs. *)
(* A pattern is the path it matches; BadPattern is a string that is not a  *)
(* regular expression, on which re.search raises re.error.                 *)
(***************************************************************************)
BadPattern == <<"(">>
Compiles(pattern) == pattern # BadPattern
Matches(pattern, u) == u.path = pattern

\* any(re.search(pattern, u) for pattern in patterns), the patterns tried
\* in order from the i-th: "match", "nomatch" or "raise"
RECURSIVE AnySearch(_, _, _)
AnySearch(patterns, u, i) ==
    IF i > Len(patterns) THEN "nomatch"
    ELSE IF ~Compiles(patterns[i]) THEN "raise"
    ELSE IF Matches(patterns[i], u) THEN "match"
    ELSE AnySearch(patterns, u, i + 1)

\* the suffix test without the dot
SameDomainSuffix(url_domain, base_domain) == EndsWith(url_domain, base_domain)

\* the test against the host of the URL the crawl started from
SameDomainAsStart(url_domain, base_domain) ==
    url_domain = start_url.host \/ EndsWith(url_domain, <<".">> \o start_url.host)

\* lines 156-160
SameDomain(url_domain, base_domain) ==
    url_domain = base_domain \/ EndsWith(url_domain, <<".">> \o base_domain)

\* a link appended only when the list does not hold it yet
AppendOnce(links, url) ==
    IF \E k \in 1..Len(links) : links[k] = url THEN links ELSE Append(links, url)

\* lines 162 and 165: links.append
AppendLink(links, url) == Append(links, url)

\* the loop of lines 144-165; an exception leaves it for the handler of
\* lines 169-171, which returns the empty list
RECURSIVE ExtractFrom(_, _, _, _, _, _, _)
ExtractFrom(g, hrefs, i, base_url, patterns, lat, links) ==
    IF i > Len(hrefs) THEN [g |-> g, links |-> links]
    ELSE LET href == hrefs[i]
         IN  IF base_url # NoBase
             THEN LET full_url == urljoin(base_url, href)
                      found == IF patterns # <<>> THEN AnySearch(patterns, full_url, 1)
                               ELSE "match"
                  IN  IF found = "raise" THEN [g |-> g, links |-> <<>>]
                      ELSE IF found = "nomatch"
                      THEN ExtractFrom(g, hrefs, i + 1, base_url, patterns, lat, links)
                      ELSE IF SameDomain(netloc(full_url), netloc(base_url))
                                /\ _is_valid_url(full_url)
                      THEN LET r == _can_fetch(g, full_url, lat)
                           IN  ExtractFrom(r.g, hrefs, i + 1, base_url, patterns, lat,
                                           IF r.ok THEN AppendLink(links, full_url) ELSE links)
                      ELSE ExtractFrom(g, hrefs, i + 1, base_url, patterns, lat, links)
             ELSE IF _is_valid_url(href)
             THEN LET r == _can_fetch(g, href, lat)
                  IN  ExtractFrom(r.g, hrefs, i + 1, base_url, patterns, lat,
                                  IF r.ok THEN AppendLink(links, href) ELSE links)
             ELSE ExtractFrom(g, hrefs, i + 1, base_url, patterns, lat, links)

extract_links(g, hrefs, base_url, patterns, lat) ==
    ExtractFrom(g, hrefs, 1, base_url, patterns, lat, <<>>)

(***************************************************************************)
(* parse_sitemap. A sitemap response is [status, kind, locs]: kind is      *)
(* "index" when the body holds the <sitemapindex marker, "urlset" for a    *)
(* leaf, "malformed" when ET.fromstring raises ParseError; status "err"    *)
(* is requests.get raising. A loc without text is NoBase.                  *)
(***************************************************************************)
NotFound == [status |-> "404", kind |-> "malformed", locs |-> <<>>]
Response(docs, u) == IF u \in DOMAIN docs THEN docs[u] ELSE NotFound

\* lines 207 and 219: loc is not None and loc.text
HasText(loc) == loc # NoBase

\* the child's URLs put before the ones collected so far
ExtendFront(urls, child_urls) == child_urls \o urls

\* a child without URLs empties the list collected so far
ResetOnEmpty(urls, child_urls) == IF child_urls = <<>> THEN <<>> ELSE urls \o child_urls

\* line 209: urls.extend(child_urls)
Extend(urls, child_urls) == urls \o child_urls

\* the exception left to the caller
SitemapErrorEscapes(r) == r

\* lines 227-233: except ET.ParseError / except Exception: return []
OnSitemapError(r) == IF r.raised THEN [g |-> r.g, urls |-> <<>>, raised |-> FALSE] ELSE r

RECURSIVE parse_sitemap(_, _, _, _)
RECURSIVE ParseChildren(_, _, _, _, _, _)

\* the loop of lines 205-209 over the <sitemap><loc> entries of an index
ParseChildren(g, locs, i, lat, depth, urls) ==
    IF i > Len(locs) THEN [g |-> g, urls |-> urls, raised |-> FALSE]
    ELSE IF ~HasText(locs[i]) THEN ParseChildren(g, locs, i + 1, lat, depth, urls)
    ELSE LET r == parse_sitemap(g, locs[i], lat, depth + 1)
         IN  IF r.raised THEN [g |-> r.g, urls |-> <<>>, raised |-> TRUE]
             ELSE ParseChildren(r.g, locs, i + 1, lat, depth, Extend(urls, r.urls))

\* lines 184-226, the body of the try: [g, urls, raised]. depth counts the
\* parse_sitemap frames on the stack; past RecursionLimit the call raises
\* RecursionError
SitemapBody(g, sitemap_url, lat, depth) ==
    IF depth > RecursionLimit THEN [g |-> g, urls |-> <<>>, raised |-> TRUE]
    ELSE LET g1 == Request(_respect_rate_limits(g), "SITEMAP", sitemap_url, lat)
             response == Response(sitemaps.docs, sitemap_url)
         IN  IF response.status = "err" THEN [g |-> g1, urls |-> <<>>, raised |-> TRUE]
             ELSE IF response.status # "200"
             THEN [g |-> g1, urls |-> <<>>, raised |-> FALSE]
             ELSE IF response.kind = "malformed"
             THEN [g |-> g1, urls |-> <<>>, raised |-> TRUE]
             ELSE IF response.kind = "index"
             THEN ParseChildren(g1, response.locs, 1, lat, depth, <<>>)
             ELSE [g |-> g1, urls |-> SelectSeq(response.locs, HasText), raised |-> FALSE]

\* [g, urls, raised]
parse_sitemap(g, sitemap_url, lat, depth) ==
    OnSitemapError(SitemapBody(g, sitemap_url, lat, depth))

(***************************************************************************)
(* The dispatcher crawl(). html is the outcome of get_html_from_url or of   *)
(* get_html_from_markdown: "ok", or "none" for an exception, a status      *)
(* other than 200, an empty body or a missing file. content is the outcome *)
(* of process_url or of the file processor: None, or the text. The         *)
(* argument is a URL or a path, or None when the caller passes no string.  *)
(***************************************************************************)
IsHttp(u) == u.scheme = "http" \/ u.scheme = "https"

AnchorsOf(u) == IF u \in DOMAIN site THEN site[u] ELSE <<>>

ExtMd == <<".", "m", "d">>
ExtTxt == <<".", "t", "x", "t">>
ExtPdf == <<".", "p", "d", "f">>

\* the characters of a string that does not start with http:// or https://
\* from which endswith reads the extension
Chars(u) == u.host \o u.path

Returned(g, content, links) ==
    [g |-> g, content |-> content, links |-> links, raised |-> FALSE]
Raised(g) == [g |-> g, content |-> None, links |-> <<>>, raised |-> TRUE]

\* the suffix tests tried before the prefix test
RouteSuffixFirst(s) ==
    IF EndsWith(Chars(s), ExtMd) THEN "md"
    ELSE IF EndsWith(Chars(s), ExtTxt) THEN "txt"
    ELSE IF EndsWith(Chars(s), ExtPdf) THEN "pdf"
    ELSE IF IsHttp(s) THEN "fetch"
    ELSE "other"

\* the if / elif chain of lines 247, 264, 277, 281, 285
Route(s) ==
    IF IsHttp(s) THEN "fetch"
    ELSE IF EndsWith(Chars(s), ExtMd) THEN "md"
    ELSE IF EndsWith(Chars(s), ExtTxt) THEN "txt"
    ELSE IF EndsWith(Chars(s), ExtPdf) THEN "pdf"
    ELSE "other"

\* lines 246-287, the body of the try: [g, content, links, raised]
CrawlBody(g, file_path_or_url, lat, html, content) ==
    IF file_path_or_url = None THEN Raised(g)
    ELSE IF Route(file_path_or_url) = "fetch"
    THEN LET g1 == Request(_respect_rate_limits(g), "PAGE", file_path_or_url, lat)
         IN  IF html = "none" THEN Returned(g1, None, <<>>)
             ELSE LET g2 == Request(g1, "PAGE", file_path_or_url, lat)
                      r == extract_links(g2, AnchorsOf(file_path_or_url),
                                         file_path_or_url, <<>>, lat)
                  IN  Returned(r.g, content, r.links)
    ELSE IF Route(file_path_or_url) = "md"
    THEN IF html = "none" THEN Returned(g, None, <<>>)
         ELSE LET r == extract_links(g, AnchorsOf(file_path_or_url), NoBase, <<>>, lat)
              IN  Returned(r.g, content, r.links)
    ELSE IF Route(file_path_or_url) = "txt" THEN Returned(g, content, <<>>)
    ELSE IF Route(file_path_or_url) = "pdf" THEN Returned(g, content, <<>>)
    ELSE Returned(g, None, <<>>)

\* the exception left to the caller
Propagate(r) == r

\* lines 288-290: except Exception: return None, []
OnException(r) == IF r.raised THEN Returned(r.g, None, <<>>) ELSE r

\* [g, content, links, raised]
crawl(g, file_path_or_url, lat, html, content) ==
    OnException(CrawlBody(g, file_path_or_url, lat, html, content))

(***************************************************************************)
(* The webs the session may face.                                          *)
(***************************************************************************)
\* a page with a relative link, a subdomain link, a cross-domain link, a
\* suffix-without-dot host, a non-http href and a repeated link
SiteFan ==
    (A :> <<RelB, C, D, N, Mailto, RelB>>) @@ (B :> <<A, C>>)
    @@ (C :> <<A, RelB>>) @@ (D :> <<RelB>>)
\* a chain three links deep, closed by a cycle
SiteChain == (A :> <<B>>) @@ (B :> <<C>>) @@ (C :> <<Sb>>) @@ (Sb :> <<C>>)
\* pages without anchors
SiteBare == (A :> <<>>)
Sites == {SiteFan, SiteChain, SiteBare}

SitemapOf(u) == urljoin(u, Rel(PathSitemap))
Sm(h, p, kind, locs) == Url(h, p) :> [status |-> "200", kind |-> kind, locs |-> locs]

\* no sitemap: the HEAD probe answers 404
SmNone == [head |-> "404", docs |-> EmptyMap]
\* the HEAD probe raises
SmHeadErr == [head |-> "err", docs |-> EmptyMap]
\* a leaf sitemap listing a page twice, an off-site page and the start page
SmLeaf == [head |-> "200", docs |-> Sm(HostE, PathSitemap, "urlset", <<B, D, B, A>>)]
\* an index of three children, the second of them missing
SmIndex ==
    [head |-> "200",
     docs |-> Sm(HostE, PathSitemap, "index",
                 <<Url(HostE, PathSm1), Url(HostE, PathSm2), Url(HostE, PathSm3)>>)
              @@ Sm(HostE, PathSm1, "urlset", <<C, B>>)
              @@ Sm(HostE, PathSm3, "urlset", <<N>>)]
\* a sitemap that is not XML
SmBroken == [head |-> "200", docs |-> Sm(HostE, PathSitemap, "malformed", <<>>)]
SitemapWorlds == {SmNone, SmHeadErr, SmLeaf, SmIndex, SmBroken}

RobotsWorlds ==
    {[net |-> "ok", disallow |-> {}],
     [net |-> "ok", disallow |-> {PathB}],
     [net |-> "ok", disallow |-> {PathRoot, PathC}],
     [net |-> "neterr", disallow |-> {}]}
\* robots.txt is never requested when respect_robots_txt is false
NoRobots == [net |-> "ok", disallow |-> {}]

Latencies == 0..MaxLatency

(***************************************************************************)
(* SimpleCrawler.__init__ (lines 36-43) in one of the webs.                *)
(***************************************************************************)
NoCall == [op |-> "none"]

Setup(delays, lats, sites, smaps, respects, robotsTxts) ==
    /\ respect_robots_txt \in respects
    /\ crawl_delay \in delays
    /\ max_pages = MaxPagesArg + 1
    /\ max_depth = MaxDepthArg + 1
    /\ robot_parsers = EmptyMap
    /\ last_request_time = 0
    /\ visited_urls = {}
    /\ now = Epoch
    /\ requests = <<>>
    /\ armed = FALSE
    /\ site \in sites
    /\ sitemaps \in smaps
    /\ robots \in IF respect_robots_txt THEN robotsTxts ELSE {NoRobots}
    /\ latency \in lats
    /\ pc = "idle"
    /\ start_url = NoBase
    /\ arg_max_depth = None
    /\ arg_max_pages = None
    /\ url_patterns = <<>>
    /\ eff_max_depth = 0
    /\ eff_max_pages = 0
    /\ sitemap_urls = <<>>
    /\ queue = <<>>
    /\ visited = {}
    /\ results = EmptyMap
    /\ page_count = 0
    /\ dequeued = <<>>
    /\ dispatched = <<>>
    /\ returned = <<>>
    /\ calls = 0
    /\ last_call = NoCall

\* a session with the default crawl_delay, requests taking no time
Init == Setup({CrawlDelayDefault}, {0}, Sites, SitemapWorlds, BOOLEAN, RobotsWorlds)

\* sessions with every delay and latency, on one site
InitTimed ==
    Setup(0..MaxDelay, Latencies, {SiteFan}, {SmNone, SmIndex}, BOOLEAN, RobotsWorlds)

SetGate(g) ==
    /\ robot_parsers' = g.rp
    /\ last_request_time' = g.last
    /\ now' = g.now
    /\ requests' = g.log
    /\ armed' = g.armed

(***************************************************************************)
(* crawl_with_depth, lines 308-317: the budgets and the fresh locals.      *)
(***************************************************************************)
OptInts(n) == {None} \cup {Some(k) : k \in 0..n}
PatternLists == {<<>>, <<PathB>>}

\* the visited set of the previous call kept
KeptVisited(old) == old

\* line 316: visited = set()
FreshVisited(old) == {}

Enter(s, d, p, pats) ==
    /\ pc = "idle"
    /\ pc' = "seeding"
    /\ start_url' = s
    /\ arg_max_depth' = d
    /\ arg_max_pages' = p
    /\ url_patterns' = pats
    /\ eff_max_depth' = IF ~TruthyInt(d) THEN max_depth ELSE d[1]
    /\ eff_max_pages' = IF ~TruthyInt(p) THEN max_pages ELSE p[1]
    /\ queue' = <<[url |-> s, depth |-> 0]>>
    /\ visited' = FreshVisited(visited)
    /\ results' = EmptyMap
    /\ sitemap_urls' = <<>>
    /\ page_count' = 0
    /\ dequeued' = <<>>
    /\ dispatched' = <<>>
    /\ returned' = <<>>
    /\ UNCHANGED <<unitVars, sessionVars, gateVars, webVars>>

Call ==
    \E d \in OptInts(MaxDepthArg), p \in OptInts(MaxPagesArg), pats \in PatternLists :
        Enter(A, d, p, pats)

(***************************************************************************)
(* crawl_with_depth, lines 319-335: the sitemap probe and the seeding.     *)
(***************************************************************************)
\* the sitemap URLs put before the start entry instead of after it
SeedQueueBefore(q, urls, i, seen) ==
    [k \in 1..Len(urls) |-> [url |-> urls[k], depth |-> 0]] \o q

\* lines 331-333: the sitemap URLs not yet visited, appended at depth 0
RECURSIVE SeedQueue(_, _, _, _)
SeedQueue(q, urls, i, seen) ==
    IF i > Len(urls) THEN q
    ELSE SeedQueue(IF urls[i] \notin seen
                   THEN Append(q, [url |-> urls[i], depth |-> 0]) ELSE q,
                   urls, i + 1, seen)

\* any answer to the probe taken for a sitemap
ProbeAnswered(status) == status # "err"

\* line 326: response.status_code == 200
ProbeFound(status) == status = "200"

Seed ==
    /\ pc = "seeding"
    /\ LET sitemap_url == SitemapOf(start_url)
           g1 == Request(_respect_rate_limits(Gate), "HEAD", sitemap_url, latency)
       IN  IF ProbeFound(sitemaps.head)
           THEN LET r == parse_sitemap(g1, sitemap_url, latency, 1)
                IN  /\ SetGate(r.g)
                    /\ IF r.raised
                       THEN UNCHANGED <<sitemap_urls, queue>>
                       ELSE /\ sitemap_urls' = r.urls
                            /\ queue' = SeedQueue(queue, r.urls, 1, visited)
           ELSE /\ SetGate(g1)
                /\ UNCHANGED <<sitemap_urls, queue>>
    /\ pc' = "draining"
    /\ UNCHANGED <<unitVars, sessionVars, webVars, start_url, arg_max_depth, arg_max_pages,
                   url_patterns, eff_max_depth, eff_max_pages, visited, results,
                   page_count, dequeued, dispatched, returned>>

(***************************************************************************)
(* crawl_with_depth, lines 339-372: one iteration of the loop.             *)
(***************************************************************************)
\* lines 365-372: the links of a page, pattern-filtered, at depth + 1.
\* [q, raised]: re.search is called outside any try, so its exception
\* leaves the loop and crawl_with_depth
RECURSIVE EnqueueLinks(_, _, _, _, _, _)
EnqueueLinks(q, links, i, pats, seen, depth) ==
    IF i > Len(links) THEN [q |-> q, raised |-> FALSE]
    ELSE LET found == IF pats # <<>> THEN AnySearch(pats, links[i], 1) ELSE "match"
         IN  IF found = "raise" THEN [q |-> q, raised |-> TRUE]
             ELSE EnqueueLinks(IF found = "nomatch" \/ links[i] \in seen
                               THEN q
                               ELSE Append(q, [url |-> links[i], depth |-> depth + 1]),
                               links, i + 1, pats, seen, depth)

LoopCondition == queue # <<>> /\ page_count < eff_max_pages

\* links followed also from a page at the depth limit
FollowLinksAtLimit(depth) == depth <= eff_max_depth

\* line 364
FollowLinks(depth) == depth < eff_max_depth

\* the skip without the visited test
SkipEntryDepthOnly(e) == e.depth > eff_max_depth

\* line 343
SkipEntry(e) == e.url \in visited \/ e.depth > eff_max_depth

\* "content is not None" instead of the truth test
HasContentNotNone(content) == content # None

\* line 352
HasContent(content) == TruthyStr(content)

\* the stop only once the budget is exceeded
BudgetExceeded(count) == count > eff_max_pages

\* line 359
BudgetReached(count) == count >= eff_max_pages

\* deque.pop() instead of deque.popleft()
PopRight(q) == [entry |-> q[Len(q)], rest |-> SubSeq(q, 1, Len(q) - 1)]

\* line 340
PopEntry(q) == [entry |-> Head(q), rest |-> Tail(q)]

\* lines 340-344: an entry already visited, or too deep, is dropped
Skip ==
    /\ pc = "draining"
    /\ LoopCondition
    /\ LET e == PopEntry(queue).entry
       IN  /\ SkipEntry(e)
           /\ queue' = PopEntry(queue).rest
           /\ dequeued' = Append(dequeued, e)
    /\ UNCHANGED <<unitVars, sessionVars, gateVars, webVars, pc, start_url, arg_max_depth,
                   arg_max_pages, url_patterns, eff_max_depth, eff_max_pages,
                   sitemap_urls, visited, results, page_count, dispatched, returned>>

HtmlOutcomes == {"ok", "none"}
ContentOutcomes == {None, Some(""), Some("T")}

\* the loop left when a dispatch yields no content
StopOnNoContent == "done"

\* lines 352, 339: without content nothing is recorded and the loop goes on
OnNoContent == "draining"

\* the counter of a loop that records a page and never counts it
CountNothing(n) == n

\* line 354: page_count += 1
CountPage(n) == n + 1

\* lines 340-372 for an entry that is dispatched
Process(e, rest, lat, html, content) ==
    LET r == crawl(Gate, e.url, lat, html, content)
        seen == visited \cup {e.url}
    IN  /\ visited' = seen
        /\ dequeued' = Append(dequeued, e)
        /\ dispatched' = Append(dispatched, e)
        /\ returned' = Append(returned, [content |-> r.content, links |-> r.links])
        /\ SetGate(r.g)
        /\ IF HasContent(r.content)
           THEN /\ results' = [k \in DOMAIN results \cup {e.url} |->
                                 IF k = e.url THEN r.content[1] ELSE results[k]]
                /\ page_count' = CountPage(page_count)
                /\ IF BudgetReached(CountPage(page_count))
                   THEN /\ pc' = "done"
                        /\ queue' = rest
                   ELSE LET added == IF FollowLinks(e.depth)
                                     THEN EnqueueLinks(rest, r.links, 1, url_patterns,
                                                       seen, e.depth)
                                     ELSE [q |-> rest, raised |-> FALSE]
                        IN  /\ pc' = IF added.raised THEN "raised" ELSE pc
                            /\ queue' = added.q
           ELSE /\ queue' = rest
                /\ pc' = OnNoContent
                /\ UNCHANGED <<results, page_count>>

Dispatch ==
    /\ pc = "draining"
    /\ LoopCondition
    /\ ~SkipEntry(PopEntry(queue).entry)
    /\ \E html \in HtmlOutcomes, content \in ContentOutcomes :
        /\ html = "none" => content = None
        /\ Process(PopEntry(queue).entry, PopEntry(queue).rest, latency, html, content)
    /\ UNCHANGED <<unitVars, sessionVars, webVars, start_url, arg_max_depth, arg_max_pages,
                   url_patterns, eff_max_depth, eff_max_pages, sitemap_urls>>

\* lines 339, 374-375: the loop condition fails and the call returns results
Return ==
    /\ pc = "draining"
    /\ ~LoopCondition
    /\ pc' = "done"
    /\ UNCHANGED <<unitVars, sessionVars, gateVars, webVars, start_url, arg_max_depth,
                   arg_max_pages, url_patterns, eff_max_depth, eff_max_pages,
                   sitemap_urls, queue, visited, results, page_count, dequeued,
                   dispatched, returned>>

Next == Call \/ Seed \/ Skip \/ Dispatch \/ Return

Spec == Init /\ [][Next]_vars

SpecTimed == InitTimed /\ [][Next]_vars

(***************************************************************************)
(* The session's other public methods, called on a fresh session.          *)
(***************************************************************************)
\* every answer a robots.txt request can get
RobotsAnswers ==
    RobotsWorlds \cup {[net |-> n, disallow |-> {}] :
                          n \in {"http403", "http404", "http500", "undecodable"}}

BoundedSeqs(S, n) == UNION {[1..k -> S] : k \in 0..n}

Hrefs == {RelB, B, C, D, N, Mailto}
HrefLists == BoundedSeqs(Hrefs, MaxAnchors)
BaseUrls == {A, C, NoBase}
AllPatternLists == PatternLists \cup {<<PathB, BadPattern>>}

InitLinks ==
    Setup({CrawlDelayDefault}, {0}, {SiteBare}, {SmNone}, BOOLEAN, RobotsAnswers)

\* extract_links(html_content, base_url, url_patterns)
ExtractLinksCall ==
    /\ pc = "idle"
    /\ last_call = NoCall
    /\ \E hrefs \in HrefLists, base_url \in BaseUrls, patterns \in AllPatternLists :
        LET r == extract_links(Gate, hrefs, base_url, patterns, latency)
        IN  /\ SetGate(r.g)
            /\ last_call' = [op |-> "extract_links", hrefs |-> hrefs,
                             base_url |-> base_url, url_patterns |-> patterns,
                             out |-> r.links]
    /\ calls' = calls + 1
    /\ UNCHANGED <<sessionVars, webVars, callVars>>

NextLinks == ExtractLinksCall

GateUrls == {A, B, C, D}

InitGate ==
    Setup({CrawlDelayDefault}, {0}, {SiteBare}, {SmNone}, BOOLEAN, RobotsAnswers)

\* _can_fetch(url); hit tells whether the parser of the host was cached
CanFetchCall ==
    /\ pc = "idle"
    /\ calls < MaxCalls
    /\ \E url \in GateUrls :
        LET r == _can_fetch(Gate, url, latency)
        IN  /\ SetGate(r.g)
            /\ last_call' = [op |-> "_can_fetch", url |-> url, out |-> r.ok,
                             hit |-> netloc(url) \in DOMAIN robot_parsers,
                             called_at |-> now, returned_at |-> r.g.now,
                             stamp |-> <<last_request_time, r.g.last>>]
    /\ calls' = calls + 1
    /\ UNCHANGED <<sessionVars, webVars, callVars>>

NextGate == CanFetchCall

\* crawl_with_depth with url_patterns that may hold a string that is not a
\* regular expression
InitRaise ==
    Setup({CrawlDelayDefault}, {0}, {SiteFan}, {SmNone, SmLeaf}, {FALSE}, RobotsWorlds)

CallAny ==
    \E s \in {A, C}, d \in OptInts(MaxDepthArg), p \in OptInts(MaxPagesArg),
       pats \in AllPatternLists :
        Enter(s, d, p, pats)

\* the sitemap GET raises, or answers a status other than 200
SmGetErr ==
    [head |-> "200",
     docs |-> SitemapOf(A) :> [status |-> "err", kind |-> "malformed", locs |-> <<>>]]
SmGet500 ==
    [head |-> "200",
     docs |-> SitemapOf(A) :> [status |-> "500", kind |-> "malformed", locs |-> <<>>]]
\* an index of two children of three URLs each
SmTwoByThree ==
    [head |-> "200",
     docs |-> Sm(HostE, PathSitemap, "index", <<Url(HostE, PathSm1), Url(HostE, PathSm2)>>)
              @@ Sm(HostE, PathSm1, "urlset", <<B, C, D>>)
              @@ Sm(HostE, PathSm2, "urlset", <<N, Sb, A>>)]
\* an index of an index and a leaf, with a loc without text
SmNested ==
    [head |-> "200",
     docs |-> Sm(HostE, PathSitemap, "index", <<Url(HostE, PathSm1), NoBase, Url(HostE, PathSm3)>>)
              @@ Sm(HostE, PathSm1, "index", <<Url(HostE, PathSm2)>>)
              @@ Sm(HostE, PathSm2, "urlset", <<C, NoBase, B>>)
              @@ Sm(HostE, PathSm3, "urlset", <<D>>)]
\* an index that lists itself
SmCycle ==
    [head |-> "200",
     docs |-> Sm(HostE, PathSitemap, "index", <<Url(HostE, PathSm1), SitemapOf(A)>>)
              @@ Sm(HostE, PathSm1, "urlset", <<B>>)]
\* the index of three children with the GET of the second raising, and
\* with the second answering a body that is not XML
SmChildErr ==
    [head |-> "200",
     docs |-> SmIndex.docs
              @@ (Url(HostE, PathSm2) :> [status |-> "err", kind |-> "malformed", locs |-> <<>>])]
SmChildBroken ==
    [head |-> "200",
     docs |-> SmIndex.docs @@ Sm(HostE, PathSm2, "malformed", <<>>)]
AllSitemapWorlds ==
    SitemapWorlds \cup {SmGetErr, SmGet500, SmTwoByThree, SmNested, SmCycle,
                        SmChildErr, SmChildBroken}

SitemapArgs == {SitemapOf(A), Url(HostE, PathSm1), Url(HostE, PathSm2)}

InitSitemap ==
    Setup({CrawlDelayDefault}, {0}, {SiteBare}, AllSitemapWorlds, {FALSE}, RobotsWorlds)

\* parse_sitemap(sitemap_url)
ParseSitemapCall ==
    /\ pc = "idle"
    /\ last_call = NoCall
    /\ \E sitemap_url \in SitemapArgs :
        LET r == parse_sitemap(Gate, sitemap_url, latency, 1)
        IN  /\ SetGate(r.g)
            /\ last_call' = [op |-> "parse_sitemap", sitemap_url |-> sitemap_url,
                             out |-> [urls |-> r.urls, raised |-> r.raised]]
    /\ calls' = calls + 1
    /\ UNCHANGED <<sessionVars, webVars, callVars>>

\* crawl_with_depth(start_url) with the session's budgets
CallDefault == Enter(A, None, None, <<>>)

NextSitemap == ParseSitemapCall \/ CallDefault \/ Seed \/ Skip \/ Dispatch \/ Return

SpecSitemap == InitSitemap /\ [][NextSitemap]_vars

\* local files, and the links of the markdown file
NotesMd == Rel(<<"n">> \o ExtMd)
ReadmeTxt == Rel(<<"r">> \o ExtTxt)
PaperPdf == Rel(<<"p">> \o ExtPdf)
DataCsv == Rel(<<"d", ".", "c", "s", "v">>)
SiteFiles == SiteFan @@ (NotesMd :> <<B, RelB, Mailto, D>>)

\* pages whose URL ends like a file
AMd == Url(HostE, <<"/", "n">> \o ExtMd)
ATxt == Url(HostE, <<"/", "r">> \o ExtTxt)

CrawlArgs == {None, A, B, AMd, ATxt, NotesMd, ReadmeTxt, PaperPdf, DataCsv, Mailto}

InitCrawl ==
    Setup({CrawlDelayDefault}, {0}, {SiteFiles}, {SmNone}, BOOLEAN, RobotsAnswers)

\* crawl(file_path_or_url)
CrawlCall ==
    /\ pc = "idle"
    /\ last_call = NoCall
    /\ \E arg \in CrawlArgs, html \in HtmlOutcomes, content \in ContentOutcomes :
        /\ html = "none" => content = None
        /\ LET r == crawl(Gate, arg, latency, html, content)
           IN  /\ SetGate(r.g)
               /\ last_call' = [op |-> "crawl", arg |-> arg, html |-> html,
                                content |-> content,
                                out |-> [content |-> r.content, links |-> r.links,
                                         raised |-> r.raised]]
    /\ calls' = calls + 1
    /\ UNCHANGED <<sessionVars, webVars, callVars>>

NextCrawl == CrawlCall

SpecCrawl == InitCrawl /\ [][NextCrawl]_vars

NextRaise == CallAny \/ Seed \/ Skip \/ Dispatch \/ Return

SpecRaise == InitRaise /\ [][NextRaise]_vars

SpecGate == InitGate /\ [][NextGate]_vars

SpecLinks == InitLinks /\ [][NextLinks]_vars

(***************************************************************************)
(* _respect_rate_limits called on a session while the clock advances.      *)
(***************************************************************************)
InitThrottle ==
    Setup(0..MaxDelay, {0}, {SiteBare}, {SmNone}, {FALSE}, RobotsWorlds)

\* the latest instant the clock is followed to
Horizon == Epoch + MaxCalls * (MaxDelay + 1)

\* the clock advances between two calls
Elapse ==
    /\ pc = "idle"
    /\ now < Horizon
    /\ now' = now + 1
    /\ UNCHANGED <<sessionVars, robot_parsers, last_request_time, requests, armed,
                   webVars, callVars, unitVars>>

\* _respect_rate_limits(); prev is the return of the previous call
RateLimitCall ==
    /\ pc = "idle"
    /\ calls < MaxCalls
    /\ LET g == _respect_rate_limits(Gate)
       IN  /\ SetGate(g)
           /\ last_call' = [op |-> "_respect_rate_limits", called_at |-> now,
                            returned_at |-> g.now,
                            prev |-> IF last_call = NoCall THEN None
                                     ELSE Some(last_call.returned_at)]
    /\ calls' = calls + 1
    /\ UNCHANGED <<sessionVars, webVars, callVars>>

NextThrottle == Elapse \/ RateLimitCall

SpecThrottle == InitThrottle /\ [][NextThrottle]_vars

(***************************************************************************)
(* A session on which _can_fetch and crawl_with_depth are called one after *)
(* the other.                                                              *)
(***************************************************************************)
\* a page linking twice to a page of a subdomain
SitePair == (A :> <<C, C>>)

SessionRobots ==
    {[net |-> "ok", disallow |-> {}], [net |-> "neterr", disallow |-> {}],
     [net |-> "http403", disallow |-> {}], [net |-> "ok", disallow |-> {PathC}]}

InitSession ==
    Setup({CrawlDelayDefault}, {0}, {SitePair}, {SmNone}, BOOLEAN, SessionRobots)

\* lines 374-375 seen from the caller: the call has returned its result
\* map and the session is free for the next call
Complete ==
    /\ pc = "done"
    /\ calls < MaxCalls
    /\ pc' = "idle"
    /\ last_call' = [op |-> "crawl_with_depth", start_url |-> start_url,
                     dispatched |-> dispatched, out |-> results]
    /\ calls' = calls + 1
    /\ UNCHANGED <<sessionVars, gateVars, webVars, start_url, arg_max_depth,
                   arg_max_pages, url_patterns, eff_max_depth, eff_max_pages,
                   sitemap_urls, queue, visited, results, page_count, dequeued,
                   dispatched, returned>>

NextSession ==
    CanFetchCall \/ CallDefault \/ Seed \/ Skip \/ Dispatch \/ Return \/ Complete

SpecSession == InitSession /\ [][NextSession]_vars

(***************************************************************************)
(* Properties of crawl_with_depth.                                         *)
(***************************************************************************)
Range(seq) == {seq[i] : i \in 1..Len(seq)}
Keys == DOMAIN results
InCall == pc # "idle"

\* the budgets the caller asked for: the argument when one is passed
PageBudget == IF arg_max_pages # None THEN arg_max_pages[1] ELSE max_pages
DepthBudget == IF arg_max_depth # None THEN arg_max_depth[1] ELSE max_depth

\* C1: in every state of a call, and at return, the result map holds at most
\* as many keys as the page budget of the call: the max_pages argument when
\* one is passed, 0 included, and the instance's max_pages otherwise.
C1_PageBound == InCall => Cardinality(Keys) <= PageBudget

\* the pages one link away from u: its anchors, resolved against u
Successors(u) == {urljoin(u, AnchorsOf(u)[i]) : i \in 1..Len(AnchorsOf(u))}
\* the pages reachable from a page of S through a chain of at most d links
RECURSIVE Within(_, _)
Within(S, d) ==
    IF d <= 0 THEN S
    ELSE Within(S \cup UNION {Successors(u) : u \in S}, d - 1)

\* C2: with depth budget d (the max_depth argument when one is passed, 0
\* included, the instance's max_depth otherwise), a URL that is not in the
\* sitemap and that every chain of at most d links from the start URL
\* misses is never a key of the result.
C2_DepthBound ==
    InCall => \A k \in Keys :
        k \in Range(sitemap_urls) \/ k \in Within({start_url}, DepthBudget)

\* C3: within one call, crawl(url) is invoked at most once for each URL.
C3_DispatchedOnce ==
    \A i, j \in 1..Len(dispatched) :
        i # j => dispatched[i].url # dispatched[j].url
\* a finished crawl in which a URL was dequeued twice and its one dispatch
\* returned no text
C3_Witness ==
    /\ pc = "done"
    /\ \E i, j \in 1..Len(dequeued), k \in 1..Len(dispatched) :
        /\ i < j
        /\ dequeued[i].url = dequeued[j].url
        /\ dispatched[k].url = dequeued[i].url
        /\ ~HasContent(returned[k].content)

PageGets(u) == {i \in 1..Len(requests) : requests[i].kind = "PAGE" /\ requests[i].url = u}

\* C4: within one call, at most one GET is issued for any page URL.
C4_OneGetPerPage == \A i \in 1..Len(requests) : Cardinality(PageGets(requests[i].url)) <= 1

\* what the robots.txt of the hosts says of u
Disallowed(u) == robots.net = "ok" /\ u.path \in robots.disallow

\* C5: when respect_robots_txt is true, no page that the robots rules of its
\* authority disallow is fetched, the start URL and the sitemap URLs included.
C5_NoDisallowedFetch ==
    respect_robots_txt =>
        \A i \in 1..Len(requests) :
            requests[i].kind = "PAGE" => ~Disallowed(requests[i].url)

\* C6: every outbound request is preceded by its own call of
\* _respect_rate_limits, and two consecutive requests of the session are
\* issued at least crawl_delay apart.
C6_EveryRequestThrottled ==
    \A i \in 1..Len(requests) :
        /\ requests[i].throttled
        /\ i > 1 => requests[i].at - requests[i - 1].at >= crawl_delay

\* C7: every URL dispatched at depth d is dispatched before any URL dispatched
\* at depth d + 1: the depths of the dispatches never decrease.
C7_BreadthFirst ==
    \A i, j \in 1..Len(dispatched) :
        i < j => dispatched[i].depth <= dispatched[j].depth
\* two pages of depth 0 were dispatched, and then a page of depth 1
C7_Witness ==
    \E i, j, k \in 1..Len(dispatched) :
        /\ i < j /\ j < k
        /\ dispatched[i].depth = 0 /\ dispatched[j].depth = 0
        /\ returned[i].links # <<>>
        /\ dispatched[k].depth = 1

\* C8 as stated: the sitemap URLs are dequeued first, in sitemap order, and
\* the start URL after them.
C8_SitemapFirst ==
    \A i \in 1..Len(dequeued) :
        i <= Len(sitemap_urls) => dequeued[i].url = sitemap_urls[i]
\* C8 amended: (start_url, 0) is on the queue before seeding appends the
\* sitemap URLs, so the start URL is dequeued first and the sitemap URLs
\* after it, in sitemap order, each at depth 0.
C8_StartThenSitemap ==
    LET order == <<start_url>> \o sitemap_urls
    IN  \A i \in 1..Len(dequeued) :
            i <= Len(order) => dequeued[i] = [url |-> order[i], depth |-> 0]
\* seeding found several URLs and all of them were dequeued
C8_Witness ==
    /\ Len(sitemap_urls) >= 2
    /\ Len(dequeued) > Len(sitemap_urls)
    /\ sitemap_urls[1] # start_url

\* C9: every key of the result map is a URL whose dispatch returned non-empty
\* text, no value of the map is the empty string, and a URL whose dispatch
\* returned None or the empty string is not a key.
C9_OnlyNonEmptyText ==
    /\ \A k \in Keys :
        /\ results[k] # ""
        /\ \E i \in 1..Len(dispatched) :
            dispatched[i].url = k /\ returned[i].content = Some(results[k])
    /\ \A i \in 1..Len(dispatched) :
        returned[i].content \in {None, Some("")} => dispatched[i].url \notin Keys
\* a dispatch returned None, another the empty string, and a third is a key
C9_Witness ==
    /\ Keys # {}
    /\ \E i, j \in 1..Len(returned) :
        returned[i].content = None /\ returned[j].content = Some("")

\* C10: every key of the result is a URL whose host is the start URL's host
\* or a subdomain of it, whatever the pages and the sitemap hold.
C10_StaysOnSite ==
    InCall => \A k \in Keys : SameDomain(netloc(k), netloc(start_url))

(***************************************************************************)
(* Properties of extract_links.                                            *)
(***************************************************************************)
\* host h is host b or a name under it
UnderHost(h, b) ==
    \/ h = b
    \/ /\ Len(h) > Len(b) + 1
       /\ h[Len(h) - Len(b)] = "."
       /\ \A k \in 1..Len(b) : h[Len(h) - Len(b) + k] = b[k]

\* robots.txt was read and allows u, or is not consulted at all
RobotsAllows(u) ==
    ~respect_robots_txt \/ (robots.net = "ok" /\ u.path \notin robots.disallow)

\* C11: every link extract_links returns for a base URL has the base host or
\* a host ending in "." + base host, so a host that merely ends in the base
\* host's characters, or another domain, is never returned; and with no
\* url_patterns a valid subdomain link the gate permits is returned
C11_DomainScoping ==
    (last_call.op = "extract_links" /\ last_call.base_url # NoBase) =>
        LET base == last_call.base_url
            out == last_call.out
            hrefs == last_call.hrefs
        IN  /\ \A i \in 1..Len(out) : UnderHost(out[i].host, base.host)
            /\ base.host = HostE =>
                   \A i \in 1..Len(out) : out[i].host \notin {HostX, HostV}
            /\ \A j \in 1..Len(hrefs) :
                   (/\ last_call.url_patterns = <<>>
                    /\ IsHttp(hrefs[j])
                    /\ hrefs[j].host # base.host
                    /\ UnderHost(hrefs[j].host, base.host)
                    /\ RobotsAllows(hrefs[j]))
                   => hrefs[j] \in Range(out)

\* a lookalike host was dropped and a subdomain link returned
C11_Witness ==
    /\ last_call.op = "extract_links"
    /\ last_call.base_url = A
    /\ last_call.hrefs = <<N, C>>
    /\ last_call.out = <<C>>

(***************************************************************************)
(* Properties of the politeness gate.                                      *)
(***************************************************************************)
\* C12: with respect_robots_txt true, when robots.txt cannot be retrieved
\* or parsed (network error, error status, undecodable body), _can_fetch
\* returns true
C12_FailOpen ==
    (last_call.op = "_can_fetch" /\ respect_robots_txt /\ robots.net # "ok")
        => last_call.out

RobotsRequestsTo(h) ==
    {i \in 1..Len(requests) : requests[i].kind = "ROBOTS" /\ requests[i].url.host = h}

\* C13: a session requests robots.txt at most once per host, whatever the
\* first request's outcome
C13_OneRobotsRequestPerHost ==
    \A i \in 1..Len(requests) :
        Cardinality(RobotsRequestsTo(requests[i].url.host)) <= 1

(***************************************************************************)
(* Totality of the public methods.                                         *)
(***************************************************************************)
\* C14: crawl_with_depth never raises, whatever the start URL, the
\* url_patterns and the outcomes of its requests
C14_NeverRaises == pc # "raised"

C16_NoneTextNoLinks ==
    (last_call.op = "crawl" /\ last_call.out.content = None)
        => last_call.out.links = <<>>

(***************************************************************************)
(* Properties of parse_sitemap and of the seeding.                         *)
(***************************************************************************)
\* a sitemap GET that raises, answers a status other than 200, or carries
\* a body that is not XML
BadSitemap(u) ==
    LET response == Response(sitemaps.docs, u)
    IN  response.status # "200" \/ response.kind = "malformed"

\* C17: parse_sitemap never raises: a GET that fails, a status other than
\* 200 or malformed XML yields the empty list, and crawl_with_depth then
\* starts draining with the start entry alone
C17_SitemapNeverRaises ==
    /\ last_call.op = "parse_sitemap" =>
           /\ ~last_call.out.raised
           /\ BadSitemap(last_call.sitemap_url) => last_call.out.urls = <<>>
    /\ (/\ pc = "draining"
        /\ dequeued = <<>>
        /\ sitemaps.head = "200"
        /\ BadSitemap(SitemapOf(start_url)))
       => (sitemap_urls = <<>> /\ queue = <<[url |-> start_url, depth |-> 0]>>)

\* parse_sitemap returned [] on XML that does not parse, and a crawl over
\* the same sitemap is draining
C17_Witness ==
    /\ sitemaps = SmBroken
    /\ last_call.op = "parse_sitemap"
    /\ last_call.sitemap_url = SitemapOf(A)
    /\ last_call.out = [urls |-> <<>>, raised |-> FALSE]
    /\ pc = "draining"
    /\ dequeued = <<>>

\* the sitemaps listed by an index, and those reachable in n steps
ChildrenOf(u) ==
    LET response == Response(sitemaps.docs, u)
    IN  IF response.status = "200" /\ response.kind = "index"
        THEN {response.locs[i] : i \in 1..Len(response.locs)} \ {NoBase}
        ELSE {}
RECURSIVE Below(_, _)
Below(u, n) ==
    IF n = 0 THEN {}
    ELSE ChildrenOf(u) \cup UNION {Below(c, n - 1) : c \in ChildrenOf(u)}
Acyclic(u) ==
    LET n == Cardinality(DOMAIN sitemaps.docs)
    IN  \A v \in {u} \cup Below(u, n) : v \notin Below(v, n)

\* the URLs of a sitemap in document order, children in index order
RECURSIVE Flatten(_, _)
RECURSIVE FlattenAll(_, _, _)
FlattenAll(locs, i, n) ==
    IF i > Len(locs) THEN <<>>
    ELSE (IF locs[i] = NoBase THEN <<>> ELSE Flatten(locs[i], n)) \o FlattenAll(locs, i + 1, n)
Flatten(u, n) ==
    LET response == Response(sitemaps.docs, u)
    IN  IF n = 0 \/ BadSitemap(u) THEN <<>>
        ELSE IF response.kind = "index" THEN FlattenAll(response.locs, 1, n - 1)
        ELSE SelectSeq(response.locs, LAMBDA l : l # NoBase)

\* C18: for an acyclic sitemap index parse_sitemap returns the children's
\* lists concatenated in index order: two children of three URLs give the
\* six URLs in order
C18_IndexConcatenation ==
    (last_call.op = "parse_sitemap" /\ Acyclic(last_call.sitemap_url)) =>
        /\ last_call.out.urls =
               Flatten(last_call.sitemap_url, Cardinality(DOMAIN sitemaps.docs) + 1)
        /\ (sitemaps = SmTwoByThree /\ last_call.sitemap_url = SitemapOf(A)) =>
               last_call.out.urls = <<B, C, D, N, Sb, A>>

\* the index of two children of three URLs was parsed
C18_Witness ==
    /\ sitemaps = SmTwoByThree
    /\ last_call.op = "parse_sitemap"
    /\ last_call.sitemap_url = SitemapOf(A)
    /\ Len(last_call.out.urls) = 6

SitemapGets == {i \in 1..Len(requests) : requests[i].kind = "SITEMAP"}

\* C19: when the HEAD probe raises or answers a status other than 200, no
\* sitemap GET is issued, seeding adds no URL, and draining starts with the
\* queue holding (start_url, 0) alone
C19_ProbeFailure ==
    (pc # "idle" /\ sitemaps.head # "200") =>
        /\ SitemapGets = {}
        /\ sitemap_urls = <<>>
        /\ (pc = "draining" /\ dequeued = <<>>) =>
               queue = <<[url |-> start_url, depth |-> 0]>>

\* draining starts after a probe that answered 404
C19_Witness ==
    /\ sitemaps.head = "404"
    /\ pc = "draining"
    /\ dequeued = <<>>
    /\ Len(requests) = 1
    /\ requests[1].kind = "HEAD"

(***************************************************************************)
(* Failure isolation in crawl_with_depth.                                  *)
(***************************************************************************)
Failed(i) == ~TruthyStr(returned[i].content)

\* C20: a dispatch that fails does not stop the crawl: the loop ends only
\* with the queue empty or the page budget reached, and every text already
\* recorded stays recorded
C20_FailureIsolation ==
    /\ pc \in {"idle", "seeding", "draining", "done"}
    /\ pc = "done" => (queue = <<>> \/ page_count >= eff_max_pages)
    /\ \A i \in 1..Len(returned) :
           ~Failed(i) =>
               /\ dispatched[i].url \in Keys
               /\ results[dispatched[i].url] = returned[i].content[1]

\* a dispatch failed between two that were recorded
C20_Witness ==
    /\ pc = "done"
    /\ Len(returned) = 3
    /\ ~Failed(1)
    /\ Failed(2)
    /\ ~Failed(3)
    /\ Cardinality(Keys) = 2

(***************************************************************************)
(* Properties of the throttle.                                             *)
(***************************************************************************)
\* C21: a call of _respect_rate_limits returns no earlier than crawl_delay
\* after the return of the previous call, leaves last_request_time at the
\* time of its return on every call, the first included, and does not wait
\* when crawl_delay is 0
C21_Throttle ==
    last_call.op = "_respect_rate_limits" =>
        /\ last_call.prev # None =>
               last_call.returned_at - last_call.prev[1] >= crawl_delay
        /\ last_request_time = last_call.returned_at
        /\ last_call.returned_at >= last_call.called_at
        /\ crawl_delay = 0 => last_call.returned_at = last_call.called_at

\* a second call came before crawl_delay had elapsed and waited
C21_Witness ==
    /\ last_call.op = "_respect_rate_limits"
    /\ last_call.prev # None
    /\ crawl_delay = MaxDelay
    /\ last_call.called_at - last_call.prev[1] < crawl_delay
    /\ last_call.returned_at > last_call.called_at

(***************************************************************************)
(* Properties of the dispatcher crawl().                                   *)
(***************************************************************************)
\* an href with scheme and authority
Absolute(u) == u.scheme # "" /\ u.host # <<>>

\* what the gate answers for a URL of a host not asked about before
GateVerdict(u) ==
    \/ ~respect_robots_txt
    \/ robots.net \in {"neterr", "undecodable", "http404"}
    \/ robots.net = "ok" /\ u.path \notin robots.disallow

MdRead ==
    /\ last_call.op = "crawl"
    /\ last_call.arg = NotesMd
    /\ last_call.html = "ok"

\* C22 as stated: for a readable .md input every anchor href that is a
\* valid absolute URL is in the returned links, whatever its domain, and
\* no relative href is returned
C22_EveryAbsoluteLink ==
    MdRead =>
        /\ \A j \in 1..Len(AnchorsOf(NotesMd)) :
               Absolute(AnchorsOf(NotesMd)[j]) =>
                   AnchorsOf(NotesMd)[j] \in Range(last_call.out.links)
        /\ \A i \in 1..Len(last_call.out.links) : Absolute(last_call.out.links[i])

\* C22 amended: for a readable .md input the returned links are the anchor
\* hrefs, in document order, that are valid absolute URLs and that
\* _can_fetch permits, whatever their domain; no relative href is returned
C22_AbsolutePermittedLinks ==
    MdRead =>
        last_call.out.links =
            SelectSeq(AnchorsOf(NotesMd), LAMBDA h : Absolute(h) /\ GateVerdict(h))

\* a markdown file whose link to another domain is returned while the link
\* robots.txt disallows is not
C22_Witness ==
    /\ MdRead
    /\ respect_robots_txt
    /\ robots.disallow = {PathB}
    /\ last_call.out.links = <<D>>

PageRequests == {i \in 1..Len(requests) : requests[i].kind = "PAGE"}

\* C23: crawl() takes the first branch whose test matches, the prefix test
\* before the suffix tests: an http(s) URL is fetched even when it ends in
\* .md or .txt, a .md path is read without a page request, a .txt or .pdf
\* path returns the processor's text with no links, and any other input
\* returns (None, []) with no request, last_request_time and the robots
\* cache untouched
C23_Routing ==
    (last_call.op = "crawl" /\ last_call.arg # None) =>
        LET arg == last_call.arg
            out == last_call.out
        IN  IF IsHttp(arg)
            THEN /\ requests # <<>>
                 /\ requests[1] = [kind |-> "PAGE", url |-> arg, at |-> Epoch,
                                    throttled |-> TRUE]
            ELSE /\ PageRequests = {}
                 /\ EndsWith(Chars(arg), ExtMd) =>
                        \/ last_call.html = "none" /\ out.content = None /\ out.links = <<>>
                        \/ last_call.html = "ok" /\ out.content = last_call.content
                 /\ (EndsWith(Chars(arg), ExtTxt) \/ EndsWith(Chars(arg), ExtPdf)) =>
                        /\ out.content = last_call.content
                        /\ out.links = <<>>
                        /\ requests = <<>>
                 /\ (/\ ~EndsWith(Chars(arg), ExtMd)
                     /\ ~EndsWith(Chars(arg), ExtTxt)
                     /\ ~EndsWith(Chars(arg), ExtPdf)) =>
                        /\ out.content = None
                        /\ out.links = <<>>
                        /\ requests = <<>>
                        /\ last_request_time = 0
                        /\ robot_parsers = EmptyMap

\* a URL ending in .md was fetched, not read as a file
C23_Witness ==
    /\ last_call.op = "crawl"
    /\ last_call.arg = AMd
    /\ PageRequests # {}

(***************************************************************************)
(* Sitemap cycles.                                                         *)
(***************************************************************************)
SitemapGetsOf(u) ==
    {i \in 1..Len(requests) : requests[i].kind = "SITEMAP" /\ requests[i].url = u}

CycleParsed ==
    /\ sitemaps = SmCycle
    /\ last_call.op = "parse_sitemap"
    /\ last_call.sitemap_url = SitemapOf(A)

\* C27 as stated: on a sitemap index that lists itself, every fetch
\* answering 200, the resolution never completes, so parse_sitemap never
\* returns
C27_CycleNeverCompletes == ~CycleParsed

\* C27 amended: parse_sitemap keeps no set of visited sitemaps and no depth
\* cap of its own: on an index that lists itself it fetches the same URL
\* once per recursion level, until the interpreter's recursion limit raises
\* RecursionError; its handler catches it and the call returns a list
\* without raising
C27_CycleEndsAtRecursionLimit ==
    (CycleParsed /\ pc = "idle") =>
        /\ ~last_call.out.raised
        /\ Cardinality(SitemapGetsOf(SitemapOf(A))) = RecursionLimit

\* the self-listing index was fetched more than once and the call returned
C27_Witness ==
    /\ CycleParsed
    /\ Cardinality(SitemapGetsOf(SitemapOf(A))) > 1
    /\ pc = "idle"

(***************************************************************************)
(* The frontier and the budget stop of crawl_with_depth.                   *)
(***************************************************************************)
\* C25: within one crawl_with_depth call the queue never holds two entries
\* with the same URL
C25_FrontierUnique ==
    \A i, j \in 1..Len(queue) : queue[i].url = queue[j].url => i = j

\* C26: the step that brings page_count to the budget ends the loop with
\* the queue as the dequeue left it, the last page's links not enqueued,
\* and from then on nothing is dequeued, dispatched or requested
C26_BudgetStopTerminal ==
    [][/\ (pc = "draining" /\ page_count < eff_max_pages
            /\ page_count' >= eff_max_pages)
           => (pc' = "done" /\ queue' = Tail(queue))
       /\ (pc \in {"draining", "done"} /\ page_count >= eff_max_pages)
           => UNCHANGED <<queue, dequeued, dispatched, requests, results>>]_vars

\* the budget was reached by a page with links while entries were queued
C26_Witness ==
    /\ pc = "done"
    /\ page_count = eff_max_pages
    /\ queue # <<>>
    /\ returned[Len(returned)].links # <<>>

(***************************************************************************)
(* Properties of a session across calls.                                   *)
(***************************************************************************)
RobotsRequests == {i \in 1..Len(requests) : requests[i].kind = "ROBOTS"}

\* C24: with respect_robots_txt false no operation of the session requests
\* robots.txt or fills the robots cache, and _can_fetch returns true
\* without waiting and without changing last_request_time
C24_GateDisabled ==
    ~respect_robots_txt =>
        /\ RobotsRequests = {}
        /\ robot_parsers = EmptyMap
        /\ last_call.op = "_can_fetch" =>
               /\ last_call.out
               /\ last_call.returned_at = last_call.called_at
               /\ last_call.stamp[1] = last_call.stamp[2]

\* _can_fetch was called after a crawl on a session that ignores robots.txt
C24_Witness ==
    /\ ~respect_robots_txt
    /\ last_call.op = "_can_fetch"
    /\ calls >= 2
    /\ requests # <<>>

DispatchedUrls(log) == {log[i].url : i \in 1..Len(log)}

\* C28: every crawl_with_depth call starts with visited empty, the queue
\* holding the start entry, no results and page_count 0, so the start URL
\* dispatched by an earlier call on the instance is dispatched again; and
\* visited_urls is never modified
C28_FreshStatePerCall ==
    /\ visited_urls = {}
    /\ pc = "seeding" =>
           /\ visited = {}
           /\ queue = <<[url |-> start_url, depth |-> 0]>>
           /\ results = EmptyMap
           /\ page_count = 0
    /\ (last_call.op = "crawl_with_depth" /\ pc = "done") =>
           /\ last_call.start_url \in DispatchedUrls(last_call.dispatched)
           /\ start_url \in DispatchedUrls(dispatched)

\* two calls on one instance dispatched the same two URLs
C28_Witness ==
    /\ last_call.op = "crawl_with_depth"
    /\ pc = "done"
    /\ DispatchedUrls(last_call.dispatched) = {A, C}
    /\ DispatchedUrls(dispatched) = {A, C}

\* C29: an entry of robot_parsers is never removed or replaced
C29_CacheOnlyGrows ==
    [][\A h \in DOMAIN robot_parsers :
          h \in DOMAIN robot_parsers' /\ robot_parsers'[h] = robot_parsers[h]]_vars

\* two hosts are cached after a second crawl_with_depth call
C29_Witness ==
    /\ last_call.op = "crawl_with_depth"
    /\ pc = "done"
    /\ DOMAIN robot_parsers = {HostE, HostS}

(***************************************************************************)
(* extract_links with a base URL, link by link.                            *)
(***************************************************************************)
\* an href resolved against a base URL
Resolved(base, href) ==
    IF href.scheme # "" THEN href
    ELSE [scheme |-> base.scheme,
          host |-> IF href.host # <<>> THEN href.host ELSE base.host,
          path |-> href.path]

MatchesSome(pats, u) == \E k \in 1..Len(pats) : u.path = pats[k]

\* C30: with a base URL and url_patterns that are regular expressions,
\* extract_links returns exactly the anchors' hrefs resolved against the
\* base, in document order and with repetitions, that are valid absolute
\* URLs, permitted by the gate, on the base host or under it and, when
\* url_patterns is not empty, matched by a pattern
C30_ExactSubsequence ==
    (/\ last_call.op = "extract_links"
     /\ last_call.base_url # NoBase
     /\ last_call.url_patterns \in PatternLists) =>
        LET base == last_call.base_url
            pats == last_call.url_patterns
            hrefs == last_call.hrefs
            resolved == [i \in 1..Len(hrefs) |-> Resolved(base, hrefs[i])]
            Keep(u) ==
                /\ Absolute(u)
                /\ GateVerdict(u)
                /\ UnderHost(u.host, base.host)
                /\ pats # <<>> => MatchesSome(pats, u)
        IN  last_call.out = SelectSeq(resolved, Keep)

\* a relative href given twice is returned twice, resolved
C30_Witness ==
    /\ last_call.op = "extract_links"
    /\ last_call.base_url = A
    /\ last_call.url_patterns = <<PathB>>
    /\ last_call.hrefs = <<RelB, RelB>>
    /\ last_call.out = <<B, B>>

(***************************************************************************)
(* Termination of the drain loop.                                          *)
(***************************************************************************)

\* the sites whose link graph has a cycle, and one without a sitemap seed
InitLive == Setup({CrawlDelayDefault}, {0}, {SiteChain, SiteFan}, {SmNone, SmLeaf},
                  {FALSE}, {NoRobots})

\* the interpreter runs the loop of lines 339-372 for as long as a step is possible
SpecLive == InitLive /\ [][Next]_vars /\ WF_vars(Next)

\* the largest number of anchors of a page of the site
OutDegree ==
    LET S == {Len(site[u]) : u \in DOMAIN site}
    IN  CHOOSE m \in S : \A n \in S : n <= m

\* what is left to do: the entries in the queue, and for each page still in
\* the budget the entry it is dequeued as together with the links it may add
Variant == Len(queue) + (eff_max_pages - page_count) * (OutDegree + 1)

\* C31: in Draining every iteration of the loop lowers a non-negative measure
\* (links are enqueued only by an iteration that increments the page count,
\* and the page count is bounded by the budget), and so the loop reaches
\* Done, on cyclic link graphs and when the page budget is never reached
C31_DrainingTerminates ==
    /\ [][pc = "draining" /\ pc' = "draining" =>
              /\ Variant' < Variant
              /\ Variant' >= 0]_vars
    /\ (pc = "draining") ~> (pc = "done")

C31_Witness ==
    /\ pc = "done"
    /\ site = SiteChain
    /\ queue = <<>>
    /\ page_count < eff_max_pages
    /\ \E i \in 1..Len(returned) :
         \E j \in 1..Len(returned[i].links) :
            returned[i].links[j] \in {dispatched[k].url : k \in 1..i}

\* C32: while the loop runs with a non-negative depth budget, every entry of
\* the queue has a depth in 0..max_depth, the depths in the queue do not
\* decrease from head to tail and are at most one more than the depth of the
\* entry dequeued last, and no dequeued entry has a depth above max_depth
C32_FrontierDepths ==
    (pc \in {"draining", "done"} /\ eff_max_depth >= 0) =>
        /\ \A i \in 1..Len(queue) : queue[i].depth \in 0..eff_max_depth
        /\ \A i \in 1..Len(queue) : \A j \in i..Len(queue) :
              queue[i].depth <= queue[j].depth
        /\ dequeued # <<>> =>
              \A i \in 1..Len(queue) :
                 queue[i].depth <= dequeued[Len(dequeued)].depth + 1
        /\ \A i \in 1..Len(dequeued) : dequeued[i].depth <= eff_max_depth

C32_Witness ==
    /\ pc = "draining"
    /\ Len(dequeued) >= 2
    /\ dequeued[Len(dequeued)].depth = eff_max_depth
    /\ \E i \in 1..Len(queue) : queue[i].depth = eff_max_depth
    /\ \E i \in 1..Len(returned) :
         /\ dispatched[i].depth = eff_max_depth
         /\ HasContent(returned[i].content)
         /\ returned[i].links # <<>>

\* C33: in every state of a call the page counter equals the number of keys
\* of the result map, and every key of the result map is in the visited set
C33_CounterIsKeys ==
    InCall =>
        /\ page_count = Cardinality(Keys)
        /\ Keys \subseteq visited

C33_Witness ==
    /\ pc = "draining"
    /\ page_count = 2
    /\ Cardinality(visited) > page_count
    /\ Len(dequeued) > Len(dispatched)

\* a dispatch returned no text: None or the empty string
NoText(content) == content = None \/ content = Some("")

\* C34: a dispatch that returns no text leaves the queue as the dequeue left
\* it: none of the links it returned is enqueued, also when it returned
\* links and the depth of the entry is below max_depth
C34_NoTextNoFollow ==
    [][(Len(returned') = Len(returned) + 1 /\
        NoText(returned'[Len(returned')].content)) =>
            /\ queue # <<>>
            /\ queue' = Tail(queue)]_vars

C34_Witness ==
    /\ pc = "draining"
    /\ returned # <<>>
    /\ LET n == Len(returned)
       IN  /\ NoText(returned[n].content)
           /\ returned[n].links # <<>>
           /\ dispatched[n].depth < eff_max_depth
           /\ \E j \in 1..Len(returned[n].links) :
                 returned[n].links[j] \notin visited

\* C35: when seeding added no URL, every URL dispatched or waiting in the
\* queue has a host that is the start URL's host or ends with "." and that
\* host, at every depth; and the links a page returns are under that page's
\* own host, so no link of a subdomain page leads back to the parent domain
C35_StaysUnderStartHost ==
    (InCall /\ pc # "seeding" /\ sitemap_urls = <<>>) =>
        /\ \A i \in 1..Len(dispatched) :
              UnderHost(dispatched[i].url.host, start_url.host)
        /\ \A i \in 1..Len(queue) :
              UnderHost(queue[i].url.host, start_url.host)
        /\ \A i \in 1..Len(returned) : \A j \in 1..Len(returned[i].links) :
              UnderHost(returned[i].links[j].host, dispatched[i].url.host)

C35_Witness ==
    /\ pc = "done"
    /\ sitemap_urls = <<>>
    /\ start_url = A
    /\ \E i \in 1..Len(dispatched) :
         /\ dispatched[i].url = C
         /\ dispatched[i].depth = 1
         /\ dispatched[i].depth < eff_max_depth
         /\ HasContent(returned[i].content)
         /\ \E k \in 1..Len(site[C]) : site[C][k] = A
         /\ returned[i].links = <<Sb>>
    /\ \E i \in 1..Len(dispatched) :
         dispatched[i].url = Sb /\ dispatched[i].depth = 2

\* C36: a _can_fetch call for a URL whose host has an entry in robot_parsers
\* issues no request, does not sleep or stamp (no _respect_rate_limits), and
\* leaves last_request_time and robot_parsers as they were
C36_CacheHitNoEffect ==
    [][(calls' = calls + 1 /\ last_call'.op = "_can_fetch" /\
        last_call'.url.host \in DOMAIN robot_parsers) =>
            /\ requests' = requests
            /\ now' = now
            /\ armed' = armed
            /\ last_request_time' = last_request_time
            /\ robot_parsers' = robot_parsers]_vars

C36_Witness ==
    /\ last_call.op = "_can_fetch"
    /\ last_call.hit
    /\ calls >= 2
    /\ Len(requests) = 1
    /\ last_call.url # requests[1].url
    /\ last_call.url.host = requests[1].url.host

\* the children of an index whose resolution fails
FailedChildren(u) == {c \in ChildrenOf(u) : BadSitemap(c)}

\* C37: when a child of an acyclic sitemap index fails (its GET raises,
\* answers a status other than 200, or carries malformed XML), parse_sitemap
\* does not raise and returns the URLs of the other children, those before
\* and those after the failed one, in index order
C37_ChildFailureIsolated ==
    (/\ last_call.op = "parse_sitemap"
     /\ Acyclic(last_call.sitemap_url)
     /\ FailedChildren(last_call.sitemap_url) # {}) =>
        LET locs == Response(sitemaps.docs, last_call.sitemap_url).locs
            others == SelectSeq(locs, LAMBDA l : l # NoBase /\ ~BadSitemap(l))
        IN  /\ ~last_call.out.raised
            /\ last_call.out.urls =
                   FlattenAll(others, 1, Cardinality(DOMAIN sitemaps.docs))
            /\ sitemaps \in {SmIndex, SmChildErr, SmChildBroken} =>
                   last_call.out.urls = <<C, B, N>>

C37_Witness ==
    /\ sitemaps = SmChildErr
    /\ last_call.op = "parse_sitemap"
    /\ last_call.sitemap_url = SitemapOf(A)
    /\ FailedChildren(SitemapOf(A)) = {Url(HostE, PathSm2)}
    /\ Cardinality(SitemapGets) = 4
    /\ last_call.out.urls = <<C, B, N>>
====
